---- MODULE Spec2Model ----
(***************************************************************************)
(* Model of app.py: the process-wide conversation_history, the submit      *)
(* handler chat_with_api and the reset handler reset_conversation.         *)
(*                                                                         *)
(* Python str values are sequences of one-character strings, so that       *)
(* str.strip() is computed and not assumed; the fixed messages of the      *)
(* program are one-token sequences.  Python None is the empty option {}.   *)
(***************************************************************************)
EXTENDS Integers, Sequences, FiniteSets, TLC

VARIABLES
    conversation_history,  \* the module-level list of line 23
    result,                \* what the last handler returned or raised
    pc,                    \* where chat_with_api is: idle, calling, returned
    h0,                    \* conversation_history when chat_with_api was entered
    call,                  \* its arguments and what S3 and the API answered
    appended               \* turns appended since the last clear()

vars == <<conversation_history, result, pc, h0, call, appended>>

\* ---------------------------------------------------------------- bounds
MaxHist == 2      \* longest history explored
MaxLen == 1       \* longest text typed by the user
MaxApiLen == 1    \* longest string inside an API response

\* ------------------------------------------------------- program constants
MIN_AUDIO_BYTES == 2048
BUCKET_NAME == "chatbot-storage-2025-01-17"
REGION_NAME == "eu-north-1"

\* ------------------------------------------------------------------ values
SP == " "
Chars == {SP, "a"}
Strs(n) == UNION {[1..k -> Chars] : k \in 0..n}

None == {}
Some(x) == {x}
Last(s) == s[Len(s)]

\* str.strip(): leading and trailing whitespace removed
RECURSIVE LStrip(_)
LStrip(s) == IF s # <<>> /\ Head(s) = SP THEN LStrip(Tail(s)) ELSE s

RECURSIVE RStrip(_)
RStrip(s) == IF s # <<>> /\ s[Len(s)] = SP THEN RStrip(SubSeq(s, 1, Len(s) - 1)) ELSE s

strip(s) == RStrip(LStrip(s))

\* ------------------------------------------------------------------ inputs
UserInputs == Strs(MaxLen)

NoAudio == [given |-> FALSE]
GoodFile == [given |-> TRUE, exists |-> TRUE, size |-> 2048, wav |-> "ok",
             rate |-> 8000, frames |-> 4000]
AudioFiles ==
    { NoAudio,
      GoodFile,
      [GoodFile EXCEPT !.exists = FALSE],
      [GoodFile EXCEPT !.size = 2047],
      [GoodFile EXCEPT !.wav = "wave.Error"],
      [GoodFile EXCEPT !.wav = "EOFError"],
      [GoodFile EXCEPT !.rate = 0],
      [GoodFile EXCEPT !.frames = 3999] }

\* what the object store does with one upload: the file is gone by the time
\* upload_to_s3 looks, s3_client.upload_file raises, or the upload succeeds
\* at clock reading t
Clock == {"1700000000"}
UploadOutcomes == {[up |-> "vanished"], [up |-> "raises"]}
                    \cup {[up |-> "ok", t |-> t] : t \in Clock}
NoUpload == [up |-> "n/a"]

\* a field of a JSON object: absent, present and not a string, or a string
Absent == [present |-> FALSE]
NonStr == [present |-> TRUE, isstr |-> FALSE]
Str(s) == [present |-> TRUE, isstr |-> TRUE, s |-> s]
ApiStrs == Strs(MaxApiLen)
Fields == {Absent, NonStr} \cup {Str(s) : s \in ApiStrs}

\* JSON values: an object with optional error/response fields, a value that
\* is neither an object nor a string (null, number, boolean, array), or a
\* string, which holds a text that is again a body
Obj(e, r) == [t |-> "obj", error |-> e, response |-> r]
Objects == {Obj(e, r) : e \in {Absent}, r \in Fields}
             \cup {Obj(e, r) : e \in Fields \ {Absent}, r \in {Absent, Str(<<"a">>)}}
Other == [t |-> "other"]
Malformed == [json |-> FALSE]
Json(v) == [json |-> TRUE, val |-> v]
InnerBodies == {Malformed, Json(Other), Json([t |-> "str", inner |-> Malformed])}
                 \cup {Json(o) : o \in Objects}
Bodies == {Malformed, Json(Other)}
            \cup {Json(o) : o \in Objects}
            \cup {Json([t |-> "str", inner |-> b]) : b \in InnerBodies}

Statuses == {201, 300, 400, 500}
ApiOutcomes == {[net |-> "failed"]}
                 \cup {[net |-> "ok", status |-> 200, body |-> b] : b \in Bodies}
                 \cup {[net |-> "ok", status |-> s, body |-> b] :
                         s \in Statuses,
                         b \in {Malformed, Json(Obj(Absent, Str(<<"a">>)))}}
NoApi == [net |-> "n/a"]

\* ------------------------------------------------------------ turn shapes
TextPart(t) == [type |-> "text", text |-> t]
AudioPart(u) == [type |-> "audio_url", audio_url |-> [url |-> u]]
UserTurn(c) == [role |-> "user", content |-> c]
\* the reply stored only when it is not empty
AssistantTurnBare(r) ==
    [role |-> "assistant", content |-> IF r = <<>> THEN <<>> ELSE <<TextPart(r)>>]

AssistantTurn(r) == [role |-> "assistant", content |-> <<TextPart(r)>>]

\* gr.update(value=v) and gr.update(value=v, visible=b)
Update(v) == [value |-> v]
UpdateVisible(v, b) == [value |-> v, visible |-> b]
Msg(m) == <<m>>

\* ------------------------------------------------------------ upload_to_s3
PublicUrl(t) == <<"https://", BUCKET_NAME, ".s3.", REGION_NAME, ".amazonaws.com/",
                  "audio_", t, ".wav">>

\* None when the file is gone, the exception of s3_client.upload_file when it
\* raises (there is no try around it), the public URL otherwise
upload_to_s3(up) ==
    IF up.up = "vanished" THEN [raised |-> FALSE, url |-> None]
    ELSE IF up.up = "raises" THEN [raised |-> TRUE]
    ELSE [raised |-> FALSE, url |-> Some(PublicUrl(up.t))]

\* ------------------------------------------ format_conversation_for_gradio
\* repr() of a content part that has no "text" key
ReprPart(p) ==
    IF p.type = "audio_url"
    THEN <<"{'type': 'audio_url', 'audio_url': {'url': '">> \o p.audio_url.url \o <<"'}}">>
    ELSE <<"{'type': 'text', 'text': '">> \o p.text \o <<"'}">>

\* the "text" key never looked up
DisplayTextRepr(content) ==
    IF Len(content) > 0 THEN ReprPart(content[1]) ELSE Msg("[]")

\* every content the program stores is a list of dicts, so only the list
\* branch of the isinstance chain is taken
DisplayText(content) ==
    IF Len(content) > 0
    THEN IF "text" \in DOMAIN content[1] THEN content[1].text ELSE ReprPart(content[1])
    ELSE Msg("[]")

FormatEntry(entry) == [role |-> entry.role, content |-> DisplayText(entry.content)]

format_conversation_for_gradio(h) == [i \in 1..Len(h) |-> FormatEntry(h[i])]

\* ----------------------------------------------------------- chat_with_api
Returned(h, err) ==
    [kind |-> "returned", fn |-> "chat_with_api",
     chatbot |-> format_conversation_for_gradio(h),
     audio_input |-> Update(None),
     error_message |-> err]
Raised(exc) == [kind |-> "raised", fn |-> "chat_with_api", exc |-> exc]

ErrorShown(m) == UpdateVisible(Some(m), TRUE)
ErrorHidden == UpdateVisible(None, FALSE)

\* the same guard without strip()
EmptyInputUnstripped(user_input, audio_file) == user_input = <<>> /\ ~audio_file.given

\* line 68: not user_input.strip() and not audio_file
EmptyInput(user_input, audio_file) == strip(user_input) = <<>> /\ ~audio_file.given

\* lines 72-73
TextContent(user_input) ==
    IF strip(user_input) # <<>> THEN <<TextPart(user_input)>> ELSE <<>>

\* the size threshold off by one
TooSmallOffByOne(audio_file) == audio_file.size < MIN_AUDIO_BYTES - 1

\* line 82
TooSmall(audio_file) == audio_file.size < MIN_AUDIO_BYTES

\* line 90: num_frames / float(frame_rate) < 0.5
TooShort(audio_file) == 2 * audio_file.frames < audio_file.rate

\* lines 78-95: the message of the first failing check, None when all pass
AudioError(audio_file) ==
    IF ~audio_file.exists THEN Some(Msg("Error: Invalid or missing audio file."))
    ELSE IF TooSmall(audio_file) THEN Some(Msg("Error: Audio file too small."))
    ELSE IF audio_file.wav = "wave.Error"
         THEN Some(Msg("Error: Unable to process audio file."))
    ELSE IF audio_file.wav # "ok" \/ audio_file.rate = 0
         THEN Some(Msg("Error: Unexpected error while processing audio."))
    ELSE IF TooShort(audio_file) THEN Some(Msg("Error: Recording too short."))
    ELSE None

\* only server errors rejected
RaisesFor5xxOnly(status) == 500 <= status /\ status < 600

\* line 130, raise_for_status(): HTTPError for a 4xx or 5xx status only
RaisesForStatus(status) == 400 <= status /\ status < 600

\* lines 139-143: response.json(), then json.loads when the value is a str;
\* a text that is not JSON raises JSONDecodeError at either step (the one of
\* requests derives from json.JSONDecodeError, so line 142 catches both)
Decode(body) ==
    IF ~body.json THEN [ok |-> FALSE]
    ELSE IF body.val.t = "str"
         THEN IF ~body.val.inner.json THEN [ok |-> FALSE]
              ELSE [ok |-> TRUE, val |-> body.val.inner.val]
         ELSE [ok |-> TRUE, val |-> body.val]

\* line 112: all("role" in message and "content" in message ...)
ValidStructure(h) == \A i \in 1..Len(h) : {"role", "content"} \subseteq DOMAIN h[i]

\* lines 61-113: everything up to the sending of the request.  stop is TRUE
\* when the call ends here, with res what it returned or raised; otherwise
\* hist holds the new user turn and the request is sent.
Begin(h, user_input, audio_file, up) ==
    IF EmptyInput(user_input, audio_file)
    THEN [stop |-> TRUE, hist |-> h, res |-> Returned(h, ErrorHidden)]
    ELSE LET text == TextContent(user_input) IN
         IF audio_file.given /\ AudioError(audio_file) # None
         THEN [stop |-> TRUE, hist |-> h,
               res |-> Returned(h, UpdateVisible(AudioError(audio_file), TRUE))]
         ELSE IF audio_file.given /\ upload_to_s3(up).raised
         THEN [stop |-> TRUE, hist |-> h, res |-> Raised("S3UploadFailedError")]
         ELSE IF audio_file.given /\ upload_to_s3(up).url = None
         THEN [stop |-> TRUE, hist |-> h,
               res |-> Returned(h, ErrorShown(Msg("Error: Audio upload failed.")))]
         ELSE LET user_content ==
                      IF audio_file.given
                      THEN Append(text, AudioPart(CHOOSE u \in upload_to_s3(up).url : TRUE))
                      ELSE text
              IN IF user_content = <<>>
                 THEN [stop |-> TRUE, hist |-> h,
                       res |-> Returned(h, ErrorShown(Msg("Error: Empty message.")))]
                 ELSE LET h1 == Append(h, UserTurn(user_content)) IN
                      IF ~ValidStructure(h1)
                      THEN [stop |-> TRUE, hist |-> h1,
                            res |-> Returned(h1, ErrorShown(
                                      Msg("Error: Invalid conversation structure.")))]
                      ELSE [stop |-> FALSE, hist |-> h1]

\* lines 127-156: the answer of the remote API arrives; h is the history as
\* it is at that moment
Finish(h, api) ==
    IF api.net = "failed"
    THEN [hist |-> h, res |-> Returned(h, ErrorShown(Msg("API request failed.")))]
    ELSE IF RaisesForStatus(api.status)
    THEN [hist |-> h,
          res |-> Returned(h, ErrorShown(<<"API Error: ", ToString(api.status)>>))]
    ELSE LET d == Decode(api.body) IN
         IF ~d.ok
         THEN [hist |-> h,
               res |-> Returned(h, ErrorShown(Msg("API Error: Invalid JSON response.")))]
         ELSE IF d.val.t # "obj"
         \* "error" in x is a TypeError on null, numbers and booleans; on an
         \* array or a str it is answered, and x["error"] or x.get then raises
         THEN [hist |-> h, res |-> Raised("TypeError")]
         ELSE IF d.val.error.present
         THEN IF ~d.val.error.isstr
              THEN [hist |-> h, res |-> Raised("AttributeError")]
              ELSE [hist |-> h,
                    res |-> Returned(h, ErrorShown(
                              IF strip(d.val.error.s) # <<>> THEN strip(d.val.error.s)
                              ELSE Msg("API Error: No response")))]
         ELSE LET h2 == IF d.val.response.present /\ d.val.response.isstr
                        THEN Append(h, AssistantTurn(d.val.response.s))
                        ELSE h
              IN [hist |-> h2, res |-> Returned(h2, ErrorHidden)]

\* ------------------------------------------------------ reset_conversation
\* a rebinding of a local name, which leaves the shared list as it is
ClearNothing(h) == h

\* line 161: conversation_history.clear()
Clear(h) == <<>>

ResetResult == [kind |-> "returned", fn |-> "reset_conversation",
                chatbot |-> <<>>, audio_input |-> Update(None)]

\* ------------------------------------------------------------------- state
NoCall == [fn |-> "none"]
NoResult == [kind |-> "none", fn |-> "none"]
ChatCall(user_input, audio_file, up, api) ==
    [fn |-> "chat_with_api", user_input |-> user_input, audio_file |-> audio_file,
     upload |-> up, api |-> api]

Init ==
    /\ conversation_history = <<>>
    /\ result = NoResult
    /\ pc = "idle"
    /\ h0 = <<>>
    /\ call = NoCall
    /\ appended = 0

\* a whole submission, run to its return with no other handler in between
ChatWithApi ==
    /\ pc = "idle"
    /\ \E user_input \in UserInputs, audio_file \in AudioFiles :
         \E up \in IF audio_file.given /\ AudioError(audio_file) = None
                   THEN UploadOutcomes ELSE {NoUpload} :
           \E b \in {Begin(conversation_history, user_input, audio_file, up)} :
             IF b.stop
             THEN /\ conversation_history' = b.hist
                  /\ result' = b.res
                  /\ call' = ChatCall(user_input, audio_file, up, NoApi)
                  /\ appended' = appended + (Len(b.hist) - Len(conversation_history))
             ELSE \E api \in ApiOutcomes :
                    \E f \in {Finish(b.hist, api)} :
                      /\ Len(f.hist) <= MaxHist
                      /\ conversation_history' = f.hist
                      /\ result' = f.res
                      /\ call' = ChatCall(user_input, audio_file, up, api)
                      /\ appended' = appended + (Len(f.hist) - Len(conversation_history))
    /\ h0' = conversation_history
    /\ pc' = "returned"

\* lines 183 and 188, outputs=[...]: the values chat_with_api returned are
\* handed to the components and its frame is gone
Return ==
    /\ pc = "returned"
    /\ pc' = "idle"
    /\ result' = NoResult
    /\ h0' = <<>>
    /\ call' = NoCall
    /\ UNCHANGED <<conversation_history, appended>>

ResetConversation ==
    /\ conversation_history' = Clear(conversation_history)
    /\ result' = ResetResult
    /\ appended' = 0
    /\ UNCHANGED <<pc, h0, call>>

Next == ChatWithApi \/ Return \/ ResetConversation

Spec == Init /\ [][Next]_vars

\* ------------------------------------------------- handlers that interleave
\* The two click listeners (lines 183 and 188) are registered separately and
\* share conversation_history without a lock: while chat_with_api waits in
\* requests.post (line 129), reset_conversation can run.  Submissions do not
\* overlap each other.
ChatBegin ==
    /\ pc = "idle"
    /\ \E user_input \in UserInputs, audio_file \in AudioFiles :
         \E up \in IF audio_file.given /\ AudioError(audio_file) = None
                   THEN UploadOutcomes ELSE {NoUpload} :
           \E b \in {Begin(conversation_history, user_input, audio_file, up)} :
             /\ Len(b.hist) <= MaxHist
             /\ conversation_history' = b.hist
             /\ call' = ChatCall(user_input, audio_file, up, NoApi)
             /\ appended' = appended + (Len(b.hist) - Len(conversation_history))
             /\ IF b.stop
                THEN result' = b.res /\ pc' = "returned"
                ELSE result' = result /\ pc' = "calling"
    /\ h0' = conversation_history

ChatFinish ==
    /\ pc = "calling"
    /\ \E api \in ApiOutcomes :
         \E f \in {Finish(conversation_history, api)} :
           /\ Len(f.hist) <= MaxHist
           /\ conversation_history' = f.hist
           /\ result' = f.res
           /\ call' = [call EXCEPT !.api = api]
           /\ appended' = appended + (Len(f.hist) - Len(conversation_history))
    /\ pc' = "returned"
    /\ h0' = h0

NextConc == ChatBegin \/ ChatFinish \/ Return \/ ResetConversation

SpecConc == Init /\ [][NextConc]_vars

\* ---------------------------------------------------------------- claims
\* the last handler to return (or raise) was chat_with_api; call and h0 then
\* describe that call
ChatDone == result.fn = "chat_with_api"
ApiReached == ChatDone /\ call.api # NoApi
IsPrefix(a, b) == Len(a) <= Len(b) /\ SubSeq(b, 1, Len(a)) = a

\* C1: no call of chat_with_api ends in an uncaught exception
NoUncaughtException == result.kind # "raised"

\* C2: a submission with an audio file that aborts during audio handling
\* (missing file, fewer than 2048 bytes, undecodable, shorter than 0.5 s,
\* upload failed) leaves conversation_history as it was, with or without text
AudioAborts ==
    /\ call.audio_file.given
    /\ \/ ~call.audio_file.exists
       \/ call.audio_file.size < 2048
       \/ call.audio_file.wav # "ok"
       \/ call.audio_file.rate = 0
       \/ 2 * call.audio_file.frames < call.audio_file.rate
       \/ call.upload.up # "ok"

AudioAbortKeepsHistory ==
    (ChatDone /\ AudioAborts) => conversation_history = h0

AudioAbortWitness ==
    /\ ChatDone /\ AudioAborts
    /\ call.audio_file.exists /\ call.audio_file.size = 2047
    /\ strip(call.user_input) # <<>>
    /\ h0 # <<>>
    /\ result.kind = "returned"
    /\ result.error_message.visible

\* C3: a valid submission answered by a JSON object with a string response r
\* and no error field grows the history by the user turn and then the
\* assistant turn, and the transcript ends with (assistant, r)
PlainReply ==
    /\ ApiReached
    /\ call.api.net = "ok" /\ call.api.status = 200
    /\ call.api.body.json /\ call.api.body.val.t = "obj"
    /\ ~call.api.body.val.error.present
    /\ call.api.body.val.response.present /\ call.api.body.val.response.isstr

ReplyGrowsByTwo ==
    PlainReply =>
        LET n == Len(h0)
            r == call.api.body.val.response.s
        IN /\ result.kind = "returned"
           /\ Len(conversation_history) = n + 2
           /\ IsPrefix(h0, conversation_history)
           /\ conversation_history[n + 1].role = "user"
           /\ conversation_history[n + 2].role = "assistant"
           /\ Len(result.chatbot) = n + 2
           /\ Last(result.chatbot) = [role |-> "assistant", content |-> r]

ReplyWitness ==
    /\ PlainReply
    /\ call.audio_file.given
    /\ call.api.body.val.response.s = <<"a">>
    /\ Len(conversation_history) = 2
    /\ Len(conversation_history[1].content) = 2

\* C4: when the parsed response carries an error field, the history grows by
\* the user turn only and the message shown is the text of that field, or
\* the fallback when the text is empty
ParsedError ==
    /\ ApiReached
    /\ call.api.net = "ok" /\ call.api.status = 200
    /\ call.api.body.json /\ call.api.body.val.t = "obj"
    /\ call.api.body.val.error.present

ErrorFieldShown ==
    ParsedError =>
        /\ result.kind = "returned"
        /\ Len(conversation_history) = Len(h0) + 1
        /\ IsPrefix(h0, conversation_history)
        /\ Last(conversation_history).role = "user"
        /\ result.error_message.visible
        /\ call.api.body.val.error.isstr
        /\ result.error_message.value =
             IF call.api.body.val.error.s = <<>>
             THEN Some(Msg("API Error: No response"))
             ELSE Some(call.api.body.val.error.s)

\* C5 as stated: after the user turn is appended, a transport failure, a
\* non-2xx status or a body that is not JSON ends the call with an error and
\* the history is the old one plus that user turn
OneUserTurnAndError ==
    /\ result.kind = "returned"
    /\ result.error_message.visible
    /\ result.error_message.value # None
    /\ Len(conversation_history) = Len(h0) + 1
    /\ IsPrefix(h0, conversation_history)
    /\ Last(conversation_history).role = "user"

ApiFailsNon2xx ==
    /\ ApiReached
    /\ \/ call.api.net = "failed"
       \/ call.api.net = "ok" /\ ~(200 <= call.api.status /\ call.api.status <= 299)
       \/ call.api.net = "ok" /\ ~call.api.body.json

Non2xxKeepsUserTurn == ApiFailsNon2xx => OneUserTurnAndError

\* C5 amended: the same for a transport failure, a 4xx or 5xx status, or a
\* body that is not JSON
ApiFails4xx5xx ==
    /\ ApiReached
    /\ \/ call.api.net = "failed"
       \/ call.api.net = "ok" /\ 400 <= call.api.status /\ call.api.status <= 599
       \/ call.api.net = "ok" /\ ~call.api.body.json

ApiFailureKeepsUserTurn == ApiFails4xx5xx => OneUserTurnAndError

ApiFailureWitness ==
    /\ ApiFails4xx5xx
    /\ call.api.net = "ok" /\ call.api.status = 400 /\ call.api.body.json
    /\ h0 # <<>>
    /\ Len(conversation_history) = Len(h0) + 1

\* C6: blank text and no audio file is a no-op: history unchanged, the
\* transcript is the display of that history, the error slot hidden and empty
BlankSubmission ==
    ChatDone /\ strip(call.user_input) = <<>> /\ ~call.audio_file.given

BlankIsNoOp ==
    BlankSubmission =>
        /\ conversation_history = h0
        /\ result.kind = "returned"
        /\ result.chatbot = format_conversation_for_gradio(h0)
        /\ result.error_message = [value |-> None, visible |-> FALSE]

BlankWitness ==
    /\ BlankSubmission
    /\ call.user_input = <<SP>>
    /\ h0 # <<>>
    /\ conversation_history = h0

\* C7: reset empties the history and the chat view from any state, and the
\* history and every transcript hold only turns appended since the last reset
ResetForgetsAll ==
    /\ Len(conversation_history) = appended
    /\ result.fn = "reset_conversation" =>
         result.kind = "returned" /\ result.chatbot = <<>>
    /\ (ChatDone /\ result.kind = "returned") => Len(result.chatbot) <= appended

ResetWitness ==
    /\ result.fn = "reset_conversation"
    /\ call.fn = "chat_with_api" /\ call.api # NoApi
    /\ conversation_history = <<>>

\* C8: every turn has role user or assistant and a non-empty content; a user
\* turn holds text and audio-reference parts, an assistant turn one text part
WellFormedPart(p) ==
    \/ p.type = "text" /\ DOMAIN p = {"type", "text"}
    \/ p.type = "audio_url" /\ DOMAIN p = {"type", "audio_url"}

TurnsWellFormed ==
    \A i \in 1..Len(conversation_history) :
        LET m == conversation_history[i] IN
        /\ m.role \in {"user", "assistant"}
        /\ Len(m.content) >= 1
        /\ \A j \in 1..Len(m.content) : WellFormedPart(m.content[j])
        /\ m.role = "assistant" => Len(m.content) = 1 /\ m.content[1].type = "text"

TurnsWitness ==
    /\ Len(conversation_history) = 2
    /\ conversation_history[1].role = "user"
    /\ Len(conversation_history[1].content) = 2
    /\ conversation_history[2].role = "assistant"
    /\ conversation_history[2].content[1].text = <<>>

\* C9: from the append of the user turn to the return of chat_with_api no
\* other handler changes conversation_history
InFlightHistoryUntouched ==
    pc = "calling" =>
        /\ Len(conversation_history) = Len(h0) + 1
        /\ IsPrefix(h0, conversation_history)
        /\ Last(conversation_history).role = "user"

\* C10: every assistant turn is immediately preceded by a user turn
AssistantFollowsUser ==
    \A i \in 1..Len(conversation_history) :
        conversation_history[i].role = "assistant" =>
            i > 1 /\ conversation_history[i - 1].role = "user"

====
